---------------------------- MODULE Spec2Model ----------------------------
(***************************************************************************)
(* Model of salt/utils/pkg/rpm.py: architecture classification, package    *)
(* name resolution, rpm query-line parsing, version splitting and the      *)
(* aggregation done by list_pkgs.                                          *)
(*                                                                         *)
(* Python values are represented as follows.                               *)
(*   str    a sequence of one-character strings, "foo" is <<"f","o","o">>  *)
(*   None   the one-element sequence <<"None">>                            *)
(*   int    <<"int">> followed by the canonical decimal text of the value  *)
(*          (arbitrary precision, as Python's int)                         *)
(*   tuple, dict with fixed keys: records                                  *)
(*   list   a sequence; where a value may be of several types (the attr    *)
(*          argument, the values list_pkgs returns) a record of its type   *)
(*          and its items                                                  *)
(* A call's outcome is a record whose field kind tells a returned value    *)
(* from a raised exception.                                                *)
(***************************************************************************)
EXTENDS Integers, Sequences, FiniteSets, TLC

VARIABLES
    pc,         \* position of the running call
    osarch,     \* the OS architecture handed to resolve_name / parse_pkginfo
    name,       \* resolve_name: raw package name
    arch,       \* resolve_name: architecture of the first package
    arch2,      \* resolve_name: architecture of a second package, same name
    resolved,   \* resolve_name(name, arch, osarch)
    resolved2,  \* resolve_name(name, arch2, osarch)
    line,       \* parse_pkginfo: the line handed in
    pkg,        \* parse_pkginfo: outcome of the call
    verstring,  \* the composite version string handed to both splitters
    evr,        \* version_to_evr(verstring)
    all_attr,   \* the attributes list_pkgs builds from the same string
    attr,       \* list_pkgs: the attr argument
    output,     \* list_pkgs: lines of the rpm command's output
    idx,        \* list_pkgs: index of the next line of output
    ret,        \* list_pkgs: name -> list of attribute dicts (local ret)
    result      \* list_pkgs: outcome of the call

vars == <<pc, osarch, name, arch, arch2, resolved, resolved2, line, pkg,
          verstring, evr, all_attr, attr, output, idx, ret, result>>

-----------------------------------------------------------------------------
(* Python built-ins the module uses *)

None == <<"None">>

Digits == <<"0", "1", "2", "3", "4", "5", "6", "7", "8", "9">>

Lower == <<"a", "b", "c", "d", "e", "f", "g", "h", "i", "j", "k", "l", "m",
           "n", "o", "p", "q", "r", "s", "t", "u", "v", "w", "x", "y", "z">>

IsDigit(c) == \E k \in 1..Len(Digits) : Digits[k] = c

DigitVal(c) == (CHOOSE k \in 1..Len(Digits) : Digits[k] = c) - 1

\* ord(c) for the ASCII characters the inputs are made of
ord(c) ==
    IF IsDigit(c) THEN 48 + DigitVal(c)
    ELSE IF \E k \in 1..Len(Lower) : Lower[k] = c
         THEN 96 + (CHOOSE k \in 1..Len(Lower) : Lower[k] = c)
    ELSE CASE c = " " -> 32 [] c = "(" -> 40 [] c = ")" -> 41
           [] c = "+" -> 43 [] c = "," -> 44 [] c = "-" -> 45
           [] c = "." -> 46 [] c = ":" -> 58 [] c = "T" -> 84
           [] c = "Z" -> 90 [] c = "_" -> 95 [] c = "|" -> 124

Min(a, b) == IF a < b THEN a ELSE b

\* s.find(c) for a one-character c: 0-based index of the first c, -1 if none
find(s, c) ==
    IF \E k \in 1..Len(s) : s[k] = c
    THEN (CHOOSE k \in 1..Len(s) : s[k] = c /\ \A j \in 1..(k - 1) : s[j] # c) - 1
    ELSE -1

\* c in s
contains(s, c) == \E k \in 1..Len(s) : s[k] = c

\* s[a:b] for a, b >= 0 (empty when a >= b)
slice(s, a, b) == SubSeq(s, a + 1, Min(b, Len(s)))

\* s[a:] for a >= 0
slice_from(s, a) == SubSeq(s, a + 1, Len(s))

\* s.startswith(prefix)
startswith(s, prefix) ==
    Len(s) >= Len(prefix) /\ SubSeq(s, 1, Len(prefix)) = prefix

\* 0-based index of the first occurrence of the string sep in s, -1 if none
find_str(s, sep) ==
    LET hits == {k \in 1..(Len(s) - Len(sep) + 1) : SubSeq(s, k, k + Len(sep) - 1) = sep}
    IN  IF hits = {} THEN -1
        ELSE (CHOOSE k \in hits : \A j \in hits : k <= j) - 1

\* s.split(sep): left to right, non-overlapping; always at least one field
RECURSIVE split(_, _)
split(s, sep) ==
    LET k == find_str(s, sep)
    IN  IF k = -1 THEN <<s>>
        ELSE <<slice(s, 0, k)>> \o split(slice_from(s, k + Len(sep)), sep)

\* s.split(c, 1) for a one-character c that occurs in s
split_once(s, c) ==
    LET k == find(s, c) IN <<slice(s, 0, k), slice_from(s, k + 1)>>

\* sep.join(parts)
RECURSIVE join(_, _)
join(sep, parts) ==
    IF parts = <<>> THEN <<>>
    ELSE IF Len(parts) = 1 THEN parts[1]
    ELSE parts[1] \o sep \o join(sep, Tail(parts))

\* s.strip() (whitespace is the space character here)
RECURSIVE lstrip(_)
lstrip(s) == IF s # <<>> /\ s[1] = " " THEN lstrip(Tail(s)) ELSE s

RECURSIVE rstrip(_)
rstrip(s) ==
    IF s # <<>> /\ s[Len(s)] = " " THEN rstrip(SubSeq(s, 1, Len(s) - 1)) ELSE s

strip(s) == rstrip(lstrip(s))

\* the digits of an int literal's body, or the empty sequence when the body is
\* not digits separated by single underscores
literal_digits(body) ==
    IF /\ body # <<>>
       /\ IsDigit(body[1])
       /\ IsDigit(body[Len(body)])
       /\ \A k \in 1..Len(body) : IsDigit(body[k]) \/ body[k] = "_"
       /\ \A k \in 1..(Len(body) - 1) : ~(body[k] = "_" /\ body[k + 1] = "_")
    THEN SelectSeq(body, IsDigit)
    ELSE <<>>

RECURSIVE drop_zeros(_)
drop_zeros(ds) == IF Len(ds) > 1 /\ ds[1] = "0" THEN drop_zeros(Tail(ds)) ELSE ds

ValueError == <<"ValueError">>

\* int(s) for a str s: surrounding whitespace, an optional sign, decimal
\* digits with single underscores between them; ValueError otherwise
int(s) ==
    LET t      == strip(s)
        signed == t # <<>> /\ t[1] \in {"+", "-"}
        ds     == literal_digits(IF signed THEN Tail(t) ELSE t)
        mag    == drop_zeros(ds)
    IN  IF ds = <<>> THEN ValueError
        ELSE IF signed /\ t[1] = "-" /\ mag # <<"0">>
             THEN <<"int", "-">> \o mag
             ELSE <<"int">> \o mag

\* str(n) for an int n
str(n) == Tail(n)

negative(n) == n[2] = "-"

\* the decimal digits of |n|
magnitude(n) == IF negative(n) THEN SubSeq(n, 3, Len(n)) ELSE Tail(n)

-----------------------------------------------------------------------------
(* Architecture tables and classification *)

ARCHES_64 ==
    {<<"x", "8", "6", "_", "6", "4">>,
     <<"a", "t", "h", "l", "o", "n">>,
     <<"a", "m", "d", "6", "4">>,
     <<"i", "a", "3", "2", "e">>,
     <<"i", "a", "6", "4">>,
     <<"g", "e", "o", "d", "e">>}

ARCHES_32 ==
    {<<"i", "3", "8", "6">>,
     <<"i", "4", "8", "6">>,
     <<"i", "5", "8", "6">>,
     <<"i", "6", "8", "6">>}

ARCHES_ARM_32 ==
    {<<"a", "r", "m", "v", "5", "t", "e", "l">>,
     <<"a", "r", "m", "v", "5", "t", "e", "j", "l">>,
     <<"a", "r", "m", "v", "6", "l">>,
     <<"a", "r", "m", "v", "6", "h", "l">>,
     <<"a", "r", "m", "v", "7", "l">>,
     <<"a", "r", "m", "v", "7", "h", "l">>,
     <<"a", "r", "m", "v", "7", "h", "n", "l">>}

ARCHES_ARM_64 ==
    {<<"a", "a", "r", "c", "h", "6", "4">>}

noarch == <<"n", "o", "a", "r", "c", "h">>

none_placeholder == <<"(", "n", "o", "n", "e", ")">>

zero == <<"0">>

\* the delimiter of QUERYFORMAT
DELIM == <<"_", "|", "-">>

\* the number of %{...} fields QUERYFORMAT joins: the arity of the unpacking in
\* parse_pkginfo
NFIELDS == 7

\* mutant: one 32-bit member on either side is enough
check_32_any(a, os) ==
    \/ a \in ARCHES_32 \/ os \in ARCHES_32
    \/ a \in ARCHES_ARM_32 \/ os \in ARCHES_ARM_32

\* check_32(arch, osarch) with osarch given
check_32(a, os) ==
    \/ \A x \in {os, a} : x \in ARCHES_32
    \/ \A x \in {os, a} : x \in ARCHES_ARM_32

\* mutant: the suffix is appended unless the arch is exactly the OS arch
resolve_name_exact(n, a, os) ==
    IF a # os THEN n \o <<".">> \o a ELSE n

\* mutant: a 32-bit package on a 64-bit x86 host keeps the bare name
resolve_name_compat64(n, a, os) ==
    IF /\ ~check_32(a, os)
       /\ ~(a \in ARCHES_32 /\ os \in ARCHES_64)
       /\ a \notin {os, noarch}
    THEN n \o <<".">> \o a
    ELSE n

\* resolve_name(name, arch, osarch) with osarch given
resolve_name(n, a, os) ==
    IF ~check_32(a, os) /\ a \notin {os, noarch}
    THEN n \o <<".">> \o a
    ELSE n

-----------------------------------------------------------------------------
(* datetime.datetime.utcfromtimestamp(n).isoformat() *)

\* <<q, r>> with q = v \div k and r = v % k for the number v that a sequence of
\* decimal digits denotes (long division, digit by digit)
RECURSIVE divmod_digits(_, _)
divmod_digits(ds, k) ==
    IF ds = <<>> THEN <<0, 0>>
    ELSE LET qr  == divmod_digits(SubSeq(ds, 1, Len(ds) - 1), k)
             acc == 10 * qr[2] + DigitVal(ds[Len(ds)])
         IN  <<10 * qr[1] + acc \div k, acc % k>>

\* a <= b for two canonical sequences of decimal digits
dec_le(a, b) ==
    \/ Len(a) < Len(b)
    \/ /\ Len(a) = Len(b)
       /\ \/ a = b
          \/ \E k \in 1..Len(a) :
                /\ SubSeq(a, 1, k - 1) = SubSeq(b, 1, k - 1)
                /\ DigitVal(a[k]) < DigitVal(b[k])

\* datetime.max (9999-12-31T23:59:59) and datetime.min (0001-01-01T00:00:00)
\* as seconds from the epoch: the timestamps utcfromtimestamp accepts
TIMESTAMP_MAX == <<"2", "5", "3", "4", "0", "2", "3", "0", "0", "7", "9", "9">>

TIMESTAMP_MIN_MAG == <<"6", "2", "1", "3", "5", "5", "9", "6", "8", "0", "0">>

datetime_in_range(n) ==
    IF negative(n) THEN dec_le(magnitude(n), TIMESTAMP_MIN_MAG)
    ELSE dec_le(magnitude(n), TIMESTAMP_MAX)

RECURSIVE to_digits(_)
\* the decimal digits of a natural number
to_digits(k) ==
    IF k < 10 THEN <<Digits[k + 1]>>
    ELSE to_digits(k \div 10) \o <<Digits[(k % 10) + 1]>>

RECURSIVE zero_pad(_, _)
\* digits left-padded with zeros to width w
zero_pad(ds, w) == IF Len(ds) >= w THEN ds ELSE zero_pad(<<"0">> \o ds, w)

\* the civil date (proleptic Gregorian) of a day count from 1970-01-01
civil_from_days(days) ==
    LET z   == days + 719468
        era == z \div 146097
        doe == z - era * 146097
        yoe == (doe - doe \div 1460 + doe \div 36524 - doe \div 146096) \div 365
        doy == doe - (365 * yoe + yoe \div 4 - yoe \div 100)
        mp  == (5 * doy + 2) \div 153
        d   == doy - (153 * mp + 2) \div 5 + 1
        m   == IF mp < 10 THEN mp + 3 ELSE mp - 9
        y   == yoe + era * 400 + (IF m <= 2 THEN 1 ELSE 0)
    IN  [year |-> y, month |-> m, day |-> d]

\* utcfromtimestamp(n).isoformat() for an int n in datetime's range:
\* YYYY-MM-DDTHH:MM:SS (an int has no microseconds)
utc_isoformat(n) ==
    LET qr   == divmod_digits(magnitude(n), 86400)
        days == IF ~negative(n) THEN qr[1]
                ELSE IF qr[2] = 0 THEN 0 - qr[1] ELSE 0 - qr[1] - 1
        secs == IF ~negative(n) \/ qr[2] = 0 THEN qr[2] ELSE 86400 - qr[2]
        date == civil_from_days(days)
    IN  zero_pad(to_digits(date.year), 4) \o <<"-">>
        \o zero_pad(to_digits(date.month), 2) \o <<"-">>
        \o zero_pad(to_digits(date.day), 2) \o <<"T">>
        \o zero_pad(to_digits(secs \div 3600), 2) \o <<":">>
        \o zero_pad(to_digits((secs % 3600) \div 60), 2) \o <<":">>
        \o zero_pad(to_digits(secs % 60), 2)

-----------------------------------------------------------------------------
(* Query-line parsing *)

\* the outcome of a call that raised
Raise(exc) == [kind |-> "raise", exc |-> exc]

\* what utcfromtimestamp raises for an int outside datetime's range: by
\* magnitude a ValueError (year out of range), an OSError or an OverflowError
DatetimeRangeError == "ValueError|OSError|OverflowError"

\* the outcome of parse_pkginfo returning None
NoPkgInfo == [kind |-> "None"]

\* pkginfo(name, version, arch, repoid, install_date, install_date_time_t)
pkginfo(n, v, a, repoid, install_date, install_date_time_t) ==
    [kind |-> "PkgInfo", name |-> n, version |-> v, arch |-> a,
     repoid |-> repoid, install_date |-> install_date,
     install_date_time_t |-> install_date_time_t]

\* the version string parse_pkginfo builds from the raw epoch, version and
\* release fields
composite_version(epoch, version, release) ==
    LET vr == IF release # <<>> THEN version \o <<"-">> \o release ELSE version
    IN  IF epoch \notin {none_placeholder, zero}
        THEN join(<<":">>, <<epoch, vr>>)
        ELSE vr

\* mutant: a line with more fields than expected is cut to the expected ones
parse_pkginfo_lenient(ln, os) ==
    LET f == split(ln, DELIM)
    IN  IF Len(f) < NFIELDS THEN NoPkgInfo
        ELSE pkginfo(resolve_name(f[1], f[5], os),
                     composite_version(f[2], f[3], f[4]), f[5], f[6], None, None)

\* mutant: a malformed install time is defaulted like a malformed epoch
parse_pkginfo_defaulting(ln, os) ==
    LET f == split(ln, DELIM)
    IN  IF Len(f) # NFIELDS THEN NoPkgInfo
        ELSE LET n == int(f[7])
             IN  IF f[7] \in {none_placeholder, zero} \/ n = ValueError
                    \/ ~datetime_in_range(n)
                 THEN pkginfo(resolve_name(f[1], f[5], os),
                              composite_version(f[2], f[3], f[4]), f[5], f[6],
                              None, None)
                 ELSE pkginfo(resolve_name(f[1], f[5], os),
                              composite_version(f[2], f[3], f[4]), f[5], f[6],
                              utc_isoformat(n) \o <<"Z">>, n)

\* parse_pkginfo(line, osarch)
parse_pkginfo(ln, os) ==
    LET f == split(ln, DELIM)
    IN  IF Len(f) # NFIELDS THEN NoPkgInfo
        ELSE
        LET n_         == resolve_name(f[1], f[5], os)
            version    == composite_version(f[2], f[3], f[4])
            install_time == f[7]
        IN  IF install_time \notin {none_placeholder, zero}
            THEN LET t == int(install_time)
                 IN  IF t = ValueError THEN Raise("ValueError")
                     ELSE IF ~datetime_in_range(t) THEN Raise(DatetimeRangeError)
                     ELSE pkginfo(n_, version, f[5], f[6],
                                  utc_isoformat(t) \o <<"Z">>, t)
            ELSE pkginfo(n_, version, f[5], f[6], None, None)

-----------------------------------------------------------------------------
(* Version string splitting *)

\* mutant: the epoch text is passed through without the int() round trip
version_to_evr_raw_epoch(vs) ==
    IF vs \in {None, <<>>} THEN <<zero, <<>>, <<>>>>
    ELSE
    LET idx_e == find(vs, ":")
        epoch == IF idx_e # -1 THEN slice(vs, 0, idx_e) ELSE zero
        idx_r == find(vs, "-")
    IN  IF idx_r # -1
        THEN <<epoch, slice(vs, idx_e + 1, idx_r), slice_from(vs, idx_r + 1)>>
        ELSE <<epoch, slice_from(vs, idx_e + 1), <<>>>>

\* version_to_evr(verstring): the tuple (epoch, version, release)
version_to_evr(vs) ==
    IF vs \in {None, <<>>} THEN <<zero, <<>>, <<>>>>
    ELSE
    LET idx_e == find(vs, ":")
        epoch == IF idx_e # -1
                 THEN LET e == int(slice(vs, 0, idx_e))
                      IN  IF e = ValueError THEN zero ELSE str(e)
                 ELSE zero
        idx_r == find(vs, "-")
    IN  IF idx_r # -1
        THEN <<epoch, slice(vs, idx_e + 1, idx_r), slice_from(vs, idx_r + 1)>>
        ELSE <<epoch, slice_from(vs, idx_e + 1), <<>>>>

-----------------------------------------------------------------------------
(* Installed-package aggregation *)

\* mutant: the release is cut at the last "-" instead of the first
pkg_attrs_rsplit(p) ==
    LET has_e  == contains(p.version, ":")
        pkgver == IF has_e THEN split_once(p.version, ":")[2] ELSE p.version
        dashes == {k \in 1..Len(pkgver) : pkgver[k] = "-"}
        last   == CHOOSE k \in dashes : \A j \in dashes : j <= k
    IN  [epoch   |-> IF has_e THEN split_once(p.version, ":")[1] ELSE None,
         version |-> IF dashes # {} THEN SubSeq(pkgver, 1, last - 1) ELSE pkgver,
         release |-> IF dashes # {} THEN slice_from(pkgver, last) ELSE None,
         arch    |-> p.arch,
         install_date |-> p.install_date,
         install_date_time_t |-> p.install_date_time_t]

\* the all_attr dict list_pkgs builds from one parsed line
pkg_attrs(p) ==
    LET has_e  == contains(p.version, ":")
        pkgver == IF has_e THEN split_once(p.version, ":")[2] ELSE p.version
        has_r  == contains(pkgver, "-")
    IN  [epoch   |-> IF has_e THEN split_once(p.version, ":")[1] ELSE None,
         version |-> IF has_r THEN split_once(pkgver, "-")[1] ELSE pkgver,
         release |-> IF has_r THEN split_once(pkgver, "-")[2] ELSE None,
         arch    |-> p.arch,
         install_date |-> p.install_date,
         install_date_time_t |-> p.install_date_time_t]

\* salt.modules.pkg_resource.add_pkg(pkgs, name, pkgver): append to the list
\* kept for the name, creating it on first use
add_pkg(pkgs, n, attrs) ==
    IF n \in DOMAIN pkgs
    THEN [pkgs EXCEPT ![n] = Append(@, attrs)]
    ELSE pkgs @@ (n :> <<attrs>>)

\* a < b for two str, as Python compares them (lexicographic, by code point)
str_lt(a, b) ==
    \/ Len(a) < Len(b) /\ SubSeq(b, 1, Len(a)) = a
    \/ \E k \in 1..Min(Len(a), Len(b)) :
          /\ SubSeq(a, 1, k - 1) = SubSeq(b, 1, k - 1)
          /\ ord(a[k]) < ord(b[k])

RECURSIVE insert_sorted(_, _)
\* d put into the sorted list l after every item whose version is not greater
insert_sorted(l, d) ==
    IF l = <<>> THEN <<d>>
    ELSE IF str_lt(d.version, l[1].version) THEN <<d>> \o l
    ELSE <<l[1]>> \o insert_sorted(Tail(l), d)

RECURSIVE sorted_by_version(_)
\* sorted(l, key=lambda d: d["version"]): stable
sorted_by_version(l) ==
    IF l = <<>> THEN <<>>
    ELSE insert_sorted(sorted_by_version(SubSeq(l, 1, Len(l) - 1)), l[Len(l)])

gpg_pubkey == <<"g", "p", "g", "-", "p", "u", "b", "k", "e", "y">>

\* a list handed back to the caller, tagged with its Python type
PyList(items) == [type |-> "list", items |-> items]

\* mutant: only the exact name gpg-pubkey is filtered out
filter_and_sort_exact(pkgs) ==
    [n \in {k \in DOMAIN pkgs : k # gpg_pubkey}
        |-> PyList(sorted_by_version(pkgs[n]))]

\* the loop building _ret: GPG public key packages dropped, each list sorted
filter_and_sort(pkgs) ==
    [n \in {k \in DOMAIN pkgs : ~startswith(k, gpg_pubkey)}
        |-> PyList(sorted_by_version(pkgs[n]))]

\* salt.utils.args.split_input(val): a list as it is, a str split at the
\* commas with each item stripped
split_input(val) ==
    IF val.type = "list" THEN val
    ELSE LET parts == split(val.value, <<",">>)
         IN  PyList([k \in 1..Len(parts) |-> strip(parts[k])])

-----------------------------------------------------------------------------
(* Inputs *)

\* all sequences over the set A of length at most n
StringsUpTo(A, n) == UNION {[1..k -> A] : k \in 0..n}

x86_64 == <<"x", "8", "6", "_", "6", "4">>

i686 == <<"i", "6", "8", "6">>

foo == <<"f", "o", "o">>

\* architectures handed to resolve_name: both 32-bit families, 64-bit ones,
\* noarch and a string no table knows
ArchInputs ==
    ARCHES_32 \cup ARCHES_ARM_32 \cup ARCHES_ARM_64
        \cup {x86_64, noarch, none_placeholder}

NameInputs == {foo, gpg_pubkey}

-----------------------------------------------------------------------------
(* resolve_name called for two packages of one name *)

InitResolve ==
    /\ pc = "call"
    /\ osarch \in ArchInputs
    /\ name \in NameInputs
    /\ arch \in ArchInputs
    /\ arch2 \in ArchInputs
    /\ resolved = None /\ resolved2 = None
    /\ line = None /\ pkg = None
    /\ verstring = None /\ evr = None /\ all_attr = None
    /\ attr = None /\ output = None /\ idx = 0 /\ ret = None /\ result = None

ResolveNames ==
    /\ pc = "call"
    /\ resolved' = resolve_name(name, arch, osarch)
    /\ resolved2' = resolve_name(name, arch2, osarch)
    /\ pc' = "done"
    /\ UNCHANGED <<osarch, name, arch, arch2, line, pkg, verstring, evr,
                   all_attr, attr, output, idx, ret, result>>

SpecResolve == InitResolve /\ [][ResolveNames]_vars

\* the cases in which the multilib rule leaves a name without suffix
NoSuffixCase(a, os) ==
    \/ a = os
    \/ a = noarch
    \/ a \in ARCHES_32 /\ os \in ARCHES_32
    \/ a \in ARCHES_ARM_32 /\ os \in ARCHES_ARM_32

\* C1: resolve_name returns the name unchanged iff the arch is the OS arch, is
\* "noarch", or both are in the 32-bit x86 family or both in the 32-bit ARM
\* family; in every other case it returns name + "." + arch
C1_ResolveRule ==
    pc = "done" =>
        /\ (resolved = name) <=> NoSuffixCase(arch, osarch)
        /\ ~NoSuffixCase(arch, osarch) => resolved = name \o <<".">> \o arch

\* C1 witness: an x86 32-bit package on a 32-bit ARM host got its suffix
C1_Witness ==
    /\ pc = "done"
    /\ arch \in ARCHES_32
    /\ osarch \in ARCHES_ARM_32
    /\ resolved = name \o <<".">> \o arch

\* C2 as stated: resolve_name("foo", "i686", "x86_64") returns "foo"
C2_Original ==
    (pc = "done" /\ name = foo /\ arch = i686 /\ osarch = x86_64)
        => resolved = foo

\* C2 amended: resolve_name("foo", "i686", "x86_64") returns "foo.i686"; an
\* x86_64 host is not in the 32-bit family, so the suffix is appended
C2_Amended ==
    (pc = "done" /\ name = foo /\ arch = i686 /\ osarch = x86_64)
        => resolved = <<"f", "o", "o", ".", "i", "6", "8", "6">>

\* C2 witness: the call of the claim has returned
C2_Witness ==
    /\ pc = "done" /\ name = foo /\ arch = i686 /\ osarch = x86_64
    /\ resolved # foo

\* C3 as stated: two different arch values resolve to one name only when both
\* and the OS arch belong to one 32-bit family
C3_Original ==
    (pc = "done" /\ arch # arch2 /\ resolved = resolved2) =>
        \/ {arch, arch2, osarch} \subseteq ARCHES_32
        \/ {arch, arch2, osarch} \subseteq ARCHES_ARM_32

\* C3 amended: two different arch values resolve to one name exactly when each
\* of them is the OS arch, "noarch", or in the OS arch's 32-bit family
C3_Amended ==
    (pc = "done" /\ arch # arch2) =>
        ((resolved = resolved2)
            <=> (NoSuffixCase(arch, osarch) /\ NoSuffixCase(arch2, osarch)))

\* C3 witness: a noarch package and a package of the OS arch share a name
C3_Witness ==
    /\ pc = "done"
    /\ arch = noarch /\ arch2 = osarch /\ arch # arch2
    /\ resolved = resolved2

-----------------------------------------------------------------------------
(* parse_pkginfo called on one line *)

\* how many fields beyond the expected ones a generated line may carry
MaxExtraFields == 1

\* install-time fields: the placeholders, valid times up to datetime.max,
\* integers outside datetime's range, non-canonical integer literals, and
\* text that is no integer
InstallTimeInputs ==
    {none_placeholder, zero,
     <<"1">>,
     <<"1", "6", "0", "0", "0", "0", "0", "0", "0", "0">>,
     TIMESTAMP_MAX,
     <<"2", "5", "3", "4", "0", "2", "3", "0", "0", "8", "0", "0">>,
     <<"9", "9", "9", "9", "9", "9", "9", "9", "9", "9",
       "9", "9", "9", "9", "9", "9", "9", "9", "9", "9">>,
     <<"0", "0">>, <<"-", "5">>, <<"+", "5">>, <<" ", "5">>, <<"1", "_", "0">>,
     <<>>, <<"a", "b", "c">>, <<"1", ".", "5">>}

\* the seven raw fields of a line: name, epoch, version, release, arch, repoid,
\* install time; one version carries the delimiter itself
FieldTuples ==
    {<<n, e, v, r, a, none_placeholder, t>> :
        n \in NameInputs,
        e \in {none_placeholder, zero, <<"1">>, <<"a", "b", "c">>},
        v \in {<<"1", ".", "0">>, <<>>, <<"1", "_", "|", "-", "0">>},
        r \in {<<"1">>, <<>>},
        a \in {x86_64, noarch},
        t \in InstallTimeInputs}

\* lines of seven fields, of fewer (the empty line too) and of more
LineInputs ==
    {join(DELIM, f) : f \in FieldTuples}
    \cup {join(DELIM, SubSeq(f, 1, k)) : f \in FieldTuples, k \in 0..(NFIELDS - 1)}
    \cup {join(DELIM, f \o [j \in 1..k |-> <<"x">>]) :
            f \in FieldTuples, k \in 1..MaxExtraFields}

InitParse ==
    /\ pc = "call"
    /\ osarch \in {x86_64, i686}
    /\ line \in LineInputs
    /\ pkg = None
    /\ name = None /\ arch = None /\ arch2 = None
    /\ resolved = None /\ resolved2 = None
    /\ verstring = None /\ evr = None /\ all_attr = None
    /\ attr = None /\ output = None /\ idx = 0 /\ ret = None /\ result = None

ParsePkginfo ==
    /\ pc = "call"
    /\ pkg' = parse_pkginfo(line, osarch)
    /\ pc' = "done"
    /\ UNCHANGED <<osarch, name, arch, arch2, resolved, resolved2, line,
                   verstring, evr, all_attr, attr, output, idx, ret, result>>

SpecParse == InitParse /\ [][ParsePkginfo]_vars

\* the fields of the line handed to parse_pkginfo
LineFields == split(line, DELIM)

\* an install-time field parse_pkginfo turns into a record: a placeholder, or
\* an integer literal whose value datetime can represent
AcceptableInstallTime(t) ==
    \/ t \in {none_placeholder, zero}
    \/ int(t) # ValueError /\ datetime_in_range(int(t))

\* C4: parse_pkginfo returns None, raising nothing, whenever the split yields
\* a number of fields other than 7; with exactly 7 fields and an acceptable
\* install time it returns a record
C4_FieldCount ==
    pc = "done" =>
        /\ Len(LineFields) # 7 => pkg.kind = "None"
        /\ (Len(LineFields) = 7 /\ AcceptableInstallTime(LineFields[7]))
              => pkg.kind = "PkgInfo"

\* C4 witness: a line that splits into 8 fields gave None
C4_Witness ==
    /\ pc = "done"
    /\ Len(LineFields) = 8
    /\ pkg.kind = "None"

\* the canonical decimal text of a positive integer
IsPositiveDecimal(t) ==
    /\ t # <<>>
    /\ \A k \in 1..Len(t) : IsDigit(t[k])
    /\ t[1] # "0"

\* s ends with the character c
EndsWith(s, c) == s # <<>> /\ s[Len(s)] = c

\* C8 as stated: placeholders give None dates; the decimal text of any
\* positive integer n gives install_date_time_t = n and an install_date ending
\* in "Z"; text that is no integer makes the call fail
C8_Original ==
    (pc = "done" /\ Len(LineFields) = 7) =>
        LET t == LineFields[7]
        IN  /\ t \in {none_placeholder, zero} =>
                /\ pkg.kind = "PkgInfo"
                /\ pkg.install_date = None
                /\ pkg.install_date_time_t = None
            /\ IsPositiveDecimal(t) =>
                /\ pkg.kind = "PkgInfo"
                /\ pkg.install_date_time_t = <<"int">> \o t
                /\ pkg.install_date # None
                /\ EndsWith(pkg.install_date, "Z")
            /\ (t \notin {none_placeholder, zero} /\ int(t) = ValueError) =>
                pkg.kind = "raise"

\* C8 amended: as stated for positive integers up to 253402300799 (the last
\* second of year 9999); for a larger positive integer the call fails too
C8_Amended ==
    (pc = "done" /\ Len(LineFields) = 7) =>
        LET t == LineFields[7]
        IN  /\ t \in {none_placeholder, zero} =>
                /\ pkg.kind = "PkgInfo"
                /\ pkg.install_date = None
                /\ pkg.install_date_time_t = None
            /\ (IsPositiveDecimal(t) /\ dec_le(t, TIMESTAMP_MAX)) =>
                /\ pkg.kind = "PkgInfo"
                /\ pkg.install_date_time_t = <<"int">> \o t
                /\ pkg.install_date # None
                /\ EndsWith(pkg.install_date, "Z")
            /\ (IsPositiveDecimal(t) /\ ~dec_le(t, TIMESTAMP_MAX)) =>
                pkg.kind = "raise"
            /\ (t \notin {none_placeholder, zero} /\ int(t) = ValueError) =>
                pkg.kind = "raise"

\* C8 witness: a line with a malformed epoch and the install time 1600000000
\* parsed to a record dated 2020-09-13T12:26:40Z
C8_Witness ==
    /\ pc = "done"
    /\ Len(LineFields) = 7
    /\ LineFields[2] = <<"a", "b", "c">>
    /\ LineFields[7] = <<"1", "6", "0", "0", "0", "0", "0", "0", "0", "0">>
    /\ pkg.kind = "PkgInfo"
    /\ pkg.install_date_time_t = <<"int">> \o LineFields[7]
    /\ pkg.install_date =
          <<"2", "0", "2", "0", "-", "0", "9", "-", "1", "3", "T",
            "1", "2", ":", "2", "6", ":", "4", "0", "Z">>

-----------------------------------------------------------------------------
(* One composite version string handed to both splitters: version_to_evr and
   the inline splitting of list_pkgs *)

\* the longest raw version field generated
MaxVerLen == 3

EvrChars == {":", "-", "0", "1", "a"}

EpochInputs ==
    {none_placeholder, zero, <<"1">>, <<"0", "1">>, <<"a">>, <<"-", "1">>,
     <<"a", "-", "1">>}

ReleaseInputs == {<<>>, <<"1">>, <<"1", "-", "a">>}

\* the strings parse_pkginfo builds from raw epoch, version and release fields
VerstringInputs ==
    {composite_version(e, v, r) :
        e \in EpochInputs, v \in StringsUpTo(EvrChars, MaxVerLen),
        r \in ReleaseInputs}

InitEvr ==
    /\ pc = "call"
    /\ verstring \in VerstringInputs \cup {None}
    /\ evr = None /\ all_attr = None
    /\ osarch = None /\ name = None /\ arch = None /\ arch2 = None
    /\ resolved = None /\ resolved2 = None
    /\ line = None /\ pkg = None
    /\ attr = None /\ output = None /\ idx = 0 /\ ret = None /\ result = None

VersionToEvr ==
    /\ pc = "call"
    /\ evr' = version_to_evr(verstring)
    /\ pc' = "evr"
    /\ UNCHANGED <<osarch, name, arch, arch2, resolved, resolved2, line, pkg,
                   verstring, all_attr, attr, output, idx, ret, result>>

\* list_pkgs' splitting of the version of a parsed line (a str, never None)
ListPkgsSplit ==
    /\ pc = "evr"
    /\ verstring # None
    /\ all_attr' = pkg_attrs(pkginfo(foo, verstring, x86_64, none_placeholder,
                                     None, None))
    /\ pc' = "done"
    /\ UNCHANGED <<osarch, name, arch, arch2, resolved, resolved2, line, pkg,
                   verstring, evr, attr, output, idx, ret, result>>

NextEvr == VersionToEvr \/ ListPkgsSplit

SpecEvr == InitEvr /\ [][NextEvr]_vars

\* the text before the first ":" of a string that has one
EpochText(vs) == slice(vs, 0, find(vs, ":"))

\* the text after the first ":", the whole string when there is none
AfterEpoch(vs) == slice_from(vs, find(vs, ":") + 1)

\* C5 as stated: for a non-empty string the epoch is "0" when there is no ":";
\* the version is the text after the first ":" up to the first "-" that
\* follows it, the release all the text after that "-"; without such a "-"
\* the version is all the text after the first ":" and the release is empty
C5_Original ==
    (pc \in {"evr", "done"} /\ verstring \notin {None, <<>>}) =>
        LET rest == AfterEpoch(verstring)
            i_r  == find(rest, "-")
        IN  /\ ~contains(verstring, ":") => evr[1] = zero
            /\ i_r # -1 =>
                  evr[2] = slice(rest, 0, i_r) /\ evr[3] = slice_from(rest, i_r + 1)
            /\ i_r = -1 => evr[2] = rest /\ evr[3] = <<>>

\* the canonical decimal text of a non-negative integer
IsNaturalDecimal(t) ==
    /\ t # <<>>
    /\ \A k \in 1..Len(t) : IsDigit(t[k])
    /\ Len(t) > 1 => t[1] # "0"

\* the canonical decimal text of an integer
IsIntegerDecimal(t) ==
    \/ IsNaturalDecimal(t)
    \/ Len(t) > 1 /\ t[1] = "-" /\ IsNaturalDecimal(Tail(t)) /\ Tail(t) # zero

\* the input carries text before a ":" that int() accepts
HasValidEpoch(vs) ==
    vs # None /\ contains(vs, ":") /\ int(EpochText(vs)) # ValueError

\* C6 as stated: the epoch of version_to_evr and the epoch attribute of
\* list_pkgs are non-empty strings encoding a non-negative integer, "0" when
\* the input has no epoch or an epoch that is no valid integer
C6_Original ==
    /\ pc \in {"evr", "done"} =>
          /\ IsNaturalDecimal(evr[1])
          /\ ~HasValidEpoch(verstring) => evr[1] = zero
    /\ pc = "done" =>
          /\ all_attr.epoch # None
          /\ IsNaturalDecimal(all_attr.epoch)
          /\ ~HasValidEpoch(verstring) => all_attr.epoch = zero

\* C6 amended: the epoch of version_to_evr is a non-empty string, the
\* canonical decimal text of an integer: "0" when the input has no epoch or
\* one that is no valid integer, else str(int(text)), negative only for a
\* negative literal. The epoch attribute of list_pkgs is None when the version
\* has no ":", else the text before the first ":" as it stands
C6_Amended ==
    /\ pc \in {"evr", "done"} =>
          /\ evr[1] # <<>>
          /\ IsIntegerDecimal(evr[1])
          /\ ~HasValidEpoch(verstring) => evr[1] = zero
          /\ HasValidEpoch(verstring) => <<"int">> \o evr[1] = int(EpochText(verstring))
          /\ evr[1][1] = "-" => lstrip(EpochText(verstring))[1] = "-"
    /\ pc = "done" =>
          /\ ~contains(verstring, ":") => all_attr.epoch = None
          /\ contains(verstring, ":") => all_attr.epoch = EpochText(verstring)

\* C6 witness: a malformed epoch was replaced by version_to_evr and kept by
\* list_pkgs
C6_Witness ==
    /\ pc = "done"
    /\ EpochText(verstring) = <<"a">>
    /\ evr[1] = zero
    /\ all_attr.epoch = <<"a">>

\* an attribute of list_pkgs with None read as the given default
OrDefault(v, d) == IF v = None THEN d ELSE v

\* C10 as stated: both paths yield the same version and release, and the same
\* epoch once the None of list_pkgs is read as "0"
C10_Original ==
    pc = "done" =>
        /\ all_attr.version = evr[2]
        /\ all_attr.release = evr[3]
        /\ OrDefault(all_attr.epoch, zero) = evr[1]

\* C10 amended: for a string whose text before the first ":" (if any) is the
\* canonical decimal text of a non-negative integer, both paths yield the same
\* version, the same release once None is read as "", and the same epoch once
\* None is read as "0"
C10_Amended ==
    (/\ pc = "done"
     /\ contains(verstring, ":") => IsNaturalDecimal(EpochText(verstring))) =>
        /\ all_attr.version = evr[2]
        /\ OrDefault(all_attr.release, <<>>) = evr[3]
        /\ OrDefault(all_attr.epoch, zero) = evr[1]

\* C10 witness: a string with an epoch, a version and a release with a second
\* "-" was split the same way by both
C10_Witness ==
    /\ pc = "done"
    /\ verstring = <<"1", ":", "1", "0", "-", "1", "-", "a">>
    /\ all_attr.epoch = <<"1">> /\ evr[1] = <<"1">>
    /\ all_attr.version = <<"1", "0">> /\ evr[2] = <<"1", "0">>
    /\ all_attr.release = <<"1", "-", "a">> /\ evr[3] = <<"1", "-", "a">>

-----------------------------------------------------------------------------
(* list_pkgs *)

\* the most lines the rpm command prints
MaxLines == 3

bar == <<"b", "a", "r">>

\* one line of the rpm query as QUERYFORMAT prints it, REPOID being "(none)"
QueryLine(n, e, v, r, a, t) ==
    join(DELIM, <<n, e, v, r, a, none_placeholder, t>>)

install_time_2020 == <<"1", "6", "0", "0", "0", "0", "0", "0", "0", "0">>

\* lines of the command's output: packages of one name in several versions
\* and arches, a GPG public key, a truncated line, a blank line, and a line
\* whose install time is no integer
OutputLines ==
    {QueryLine(foo, none_placeholder, <<"1", ".", "0">>, <<"1">>, x86_64,
               install_time_2020),
     QueryLine(foo, <<"1">>, <<"0", ".", "9">>, <<>>, noarch, zero),
     QueryLine(bar, <<"a">>, <<"2">>, <<"1">>, i686, none_placeholder),
     QueryLine(gpg_pubkey, none_placeholder, <<"a", "b", "c">>, <<"1">>,
               none_placeholder, install_time_2020),
     foo \o DELIM \o <<"1", ".", "0">>,
     <<>>,
     QueryLine(foo, zero, <<"1", ".", "0">>, <<"1">>, noarch, <<"a", "b", "c">>)}

all == <<"a", "l", "l">>

\* the attr argument: None, "all", a comma-separated str, a list of names
AttrInputs ==
    {[type |-> "NoneType", value |-> None],
     [type |-> "str", value |-> all],
     [type |-> "str",
      value |-> <<"v", "e", "r", "s", "i", "o", "n", ",", " ", "a", "r", "c", "h">>],
     PyList(<<<<"e", "p", "o", "c", "h">>>>)}

Init ==
    /\ pc = "start"
    /\ attr \in AttrInputs
    /\ osarch \in {x86_64, i686}
    /\ output = <<>> /\ idx = 0 /\ ret = <<>> /\ result = None
    /\ name = None /\ arch = None /\ arch2 = None
    /\ resolved = None /\ resolved2 = None
    /\ line = None /\ pkg = None
    /\ verstring = None /\ evr = None /\ all_attr = None

\* the attr argument normalised, the command run and its output split in lines
RunQuery ==
    /\ pc = "start"
    /\ attr' = IF attr.type # "NoneType" /\ ~(attr.type = "str" /\ attr.value = all)
               THEN split_input(attr)
               ELSE attr
    /\ \E n \in 0..MaxLines : output' \in [1..n -> OutputLines]
    /\ idx' = 1
    /\ ret' = <<>>
    /\ pc' = "loop"
    /\ UNCHANGED <<osarch, name, arch, arch2, resolved, resolved2, line, pkg,
                   verstring, evr, all_attr, result>>

\* a line parse_pkginfo returns None for is passed over
SkipLine ==
    /\ pc = "loop" /\ idx <= Len(output)
    /\ parse_pkginfo(output[idx], osarch).kind = "None"
    /\ idx' = idx + 1
    /\ UNCHANGED <<pc, osarch, name, arch, arch2, resolved, resolved2, line,
                   pkg, verstring, evr, all_attr, attr, output, ret, result>>

\* a parsed line is split into its attributes and recorded under its name
AddLine ==
    /\ pc = "loop" /\ idx <= Len(output)
    /\ LET p == parse_pkginfo(output[idx], osarch)
       IN  /\ p.kind = "PkgInfo"
           /\ ret' = add_pkg(ret, p.name, pkg_attrs(p))
    /\ idx' = idx + 1
    /\ UNCHANGED <<pc, osarch, name, arch, arch2, resolved, resolved2, line,
                   pkg, verstring, evr, all_attr, attr, output, result>>

\* an exception of parse_pkginfo leaves list_pkgs
RaiseLine ==
    /\ pc = "loop" /\ idx <= Len(output)
    /\ LET p == parse_pkginfo(output[idx], osarch)
       IN  /\ p.kind = "raise"
           /\ result' = p
    /\ pc' = "raised"
    /\ UNCHANGED <<osarch, name, arch, arch2, resolved, resolved2, line, pkg,
                   verstring, evr, all_attr, attr, output, idx, ret>>

\* after the last line: _ret is built and returned
Return ==
    /\ pc = "loop" /\ idx > Len(output)
    /\ result' = [kind |-> "return", value |-> filter_and_sort(ret)]
    /\ pc' = "done"
    /\ UNCHANGED <<osarch, name, arch, arch2, resolved, resolved2, line, pkg,
                   verstring, evr, all_attr, attr, output, idx, ret>>

Next == RunQuery \/ SkipLine \/ AddLine \/ RaiseLine \/ Return

Spec == Init /\ [][Next]_vars

\* the keys of an attribute mapping
AttrKeys ==
    {"epoch", "version", "release", "arch", "install_date", "install_date_time_t"}

\* C7 as stated: with attr None every value of the returned mapping is a
\* single str; with attributes requested it is a list of mappings with the
\* keys epoch, version, release, arch, install_date, install_date_time_t
C7_Original ==
    pc = "done" =>
        \A n \in DOMAIN result.value :
            LET v == result.value[n]
            IN  /\ attr.type = "NoneType" => v.type = "str"
                /\ attr.type # "NoneType" =>
                      /\ v.type = "list"
                      /\ \A k \in 1..Len(v.items) : DOMAIN v.items[k] = AttrKeys

\* C9: no key of the mapping list_pkgs returns begins with "gpg-pubkey";
\* every line that parses to another name is in the mapping whatever lines
\* came before it, and parse_pkginfo raises only on a line of 7 fields
C9_NoGpgPubkey ==
    /\ pc = "done" =>
          /\ \A n \in DOMAIN result.value : ~startswith(n, gpg_pubkey)
          /\ \A j \in 1..Len(output) :
                LET p == parse_pkginfo(output[j], osarch)
                IN  (p.kind = "PkgInfo" /\ ~startswith(p.name, gpg_pubkey)) =>
                        /\ p.name \in DOMAIN result.value
                        /\ \E k \in 1..Len(result.value[p.name].items) :
                              result.value[p.name].items[k] = pkg_attrs(p)
    /\ pc = "raised" => Len(split(output[idx], DELIM)) = NFIELDS

\* C9 witness: a truncated line, then a GPG public key, then a package; the
\* mapping returned holds the package alone
C9_Witness ==
    /\ pc = "done"
    /\ Len(output) = 3
    /\ parse_pkginfo(output[1], osarch).kind = "None"
    /\ parse_pkginfo(output[2], osarch).kind = "PkgInfo"
    /\ startswith(parse_pkginfo(output[2], osarch).name, gpg_pubkey)
    /\ parse_pkginfo(output[3], osarch).kind = "PkgInfo"
    /\ DOMAIN result.value = {parse_pkginfo(output[3], osarch).name}

=============================================================================
